---- MODULE Spec2Model ----
(***************************************************************************)
(* Code File Organizer (file_organizer.py): the classification-and-        *)
(* placement engine, the duplicate pre-pass, the directory walk with its   *)
(* statistics, and the command-line entry point that configures a run.     *)
(*                                                                         *)
(* Paths are sequences of path components (strings) counted from the       *)
(* filesystem root.  A file's basename is a string; Chars gives its        *)
(* spelling as a sequence of characters, on which the regular expressions  *)
(* and os.path.splitext of the source are computed.                        *)
(***************************************************************************)
EXTENDS Integers, Sequences, FiniteSets, TLC

(***************************************************************************)
(* Bounds of the model                                                     *)
(***************************************************************************)
\* largest number of files in an initial tree of Spec
MaxFiles == 3

\* number of invocations of main() on the same tree
MaxRuns == 2

\* largest number of files in an initial tree of SpecClassify
MaxClassifyFiles == 1

\* largest number of files in an initial tree of SpecCLI
MaxCLIFiles == 2

\* largest number of files in an initial tree of SpecRerun
MaxRerunFiles == 2

\* largest number of files in an initial tree of SpecReplay
MaxReplayFiles == 2

(***************************************************************************)
(* Program data                                                            *)
(***************************************************************************)
\* file_organizer.py:37-100
DEFAULT_MAPPINGS ==
    ("html" :> <<"Web", "HTML">>)
 @@ ("htm" :> <<"Web", "HTML">>)
 @@ ("css" :> <<"Web", "CSS">>)
 @@ ("scss" :> <<"Web", "CSS">>)
 @@ ("sass" :> <<"Web", "CSS">>)
 @@ ("less" :> <<"Web", "CSS">>)
 @@ ("js" :> <<"Web", "JavaScript">>)
 @@ ("jsx" :> <<"Web", "React">>)
 @@ ("ts" :> <<"Web", "TypeScript">>)
 @@ ("tsx" :> <<"Web", "React">>)
 @@ ("php" :> <<"Web", "PHP">>)
 @@ ("py" :> <<"Python">>)
 @@ ("java" :> <<"Java">>)
 @@ ("c" :> <<"C">>)
 @@ ("cpp" :> <<"C++">>)
 @@ ("cs" :> <<"CSharp">>)
 @@ ("go" :> <<"Go">>)
 @@ ("rs" :> <<"Rust">>)
 @@ ("rb" :> <<"Ruby">>)
 @@ ("swift" :> <<"Swift">>)
 @@ ("kt" :> <<"Kotlin">>)
 @@ ("json" :> <<"Data", "JSON">>)
 @@ ("xml" :> <<"Data", "XML">>)
 @@ ("yaml" :> <<"Data", "YAML">>)
 @@ ("yml" :> <<"Data", "YAML">>)
 @@ ("csv" :> <<"Data", "CSV">>)
 @@ ("xls" :> <<"Data", "Excel">>)
 @@ ("xlsx" :> <<"Data", "Excel">>)
 @@ ("md" :> <<"Documentation", "Markdown">>)
 @@ ("txt" :> <<"Documentation", "Text">>)
 @@ ("pdf" :> <<"Documentation", "PDF">>)
 @@ ("docx" :> <<"Documentation", "Word">>)
 @@ ("doc" :> <<"Documentation", "Word">>)
 @@ ("ini" :> <<"Config">>)
 @@ ("cfg" :> <<"Config">>)
 @@ ("conf" :> <<"Config">>)
 @@ ("env" :> <<"Config">>)
 @@ ("toml" :> <<"Config">>)
 @@ ("jpg" :> <<"Media", "Images">>)
 @@ ("jpeg" :> <<"Media", "Images">>)
 @@ ("png" :> <<"Media", "Images">>)
 @@ ("gif" :> <<"Media", "Images">>)
 @@ ("svg" :> <<"Media", "Images">>)
 @@ ("webp" :> <<"Media", "Images">>)
 @@ ("sh" :> <<"Scripts", "Shell">>)
 @@ ("bash" :> <<"Scripts", "Shell">>)
 @@ ("bat" :> <<"Scripts", "Batch">>)
 @@ ("ps1" :> <<"Scripts", "PowerShell">>)
 @@ ("sql" :> <<"Database", "SQL">>)

\* spelling of every basename that occurs in the modelled trees
Chars ==
    ("script.py" :> <<"s", "c", "r", "i", "p", "t", ".", "p", "y">>)
 @@ ("utils.py" :> <<"u", "t", "i", "l", "s", ".", "p", "y">>)
 @@ ("run.sh" :> <<"r", "u", "n", ".", "s", "h">>)
 @@ ("app.js" :> <<"a", "p", "p", ".", "j", "s">>)
 @@ ("Button.js" :> <<"B", "u", "t", "t", "o", "n", ".", "j", "s">>)
 @@ ("config.json" :> <<"c", "o", "n", "f", "i", "g", ".", "j", "s", "o", "n">>)
 @@ ("data.json" :> <<"d", "a", "t", "a", ".", "j", "s", "o", "n">>)
 @@ ("app.config" :> <<"a", "p", "p", ".", "c", "o", "n", "f", "i", "g">>)
 @@ ("database.txt" :> <<"d", "a", "t", "a", "b", "a", "s", "e", ".", "t", "x", "t">>)
 @@ ("big.txt" :> <<"b", "i", "g", ".", "t", "x", "t">>)
 @@ (".env" :> <<".", "e", "n", "v">>)
 @@ (".env.json" :> <<".", "e", "n", "v", ".", "j", "s", "o", "n">>)
 @@ ("settings.yaml" :> <<"s", "e", "t", "t", "i", "n", "g", "s", ".", "y", "a", "m", "l">>)
 @@ ("setup.ini" :> <<"s", "e", "t", "u", "p", ".", "i", "n", "i">>)
 @@ ("notes.xyz" :> <<"n", "o", "t", "e", "s", ".", "x", "y", "z">>)
 @@ ("Makefile" :> <<"M", "a", "k", "e", "f", "i", "l", "e">>)
 @@ ("README.MD" :> <<"R", "E", "A", "D", "M", "E", ".", "M", "D">>)
 @@ ("organize.py" :> <<"o", "r", "g", "a", "n", "i", "z", "e", ".", "p", "y">>)
 @@ ("lib.py" :> <<"l", "i", "b", ".", "p", "y">>)
 @@ ("organization_report.json" :> <<"o", "r", "g", "a", "n", "i", "z", "a", "t", "i", "o", "n", "_", "r", "e", "p", "o", "r", "t", ".", "j", "s", "o", "n">>)
 @@ ("my.conf" :> <<"m", "y", ".", "c", "o", "n", "f">>)
 @@ ("settings.js" :> <<"s", "e", "t", "t", "i", "n", "g", "s", ".", "j", "s">>)
 @@ ("pyproject.toml" :> <<"p", "y", "p", "r", "o", "j", "e", "c", "t", ".", "t", "o", "m", "l">>)
 @@ ("tool.pl" :> <<"t", "o", "o", "l", ".", "p", "l">>)
 @@ ("Python" :> <<"P", "y", "t", "h", "o", "n">>)

\* str.lower() on one character
LowerChar(c) ==
    CASE c = "A" -> "a" [] c = "B" -> "b" [] c = "C" -> "c" [] c = "D" -> "d"
      [] c = "E" -> "e" [] c = "F" -> "f" [] c = "G" -> "g" [] c = "H" -> "h"
      [] c = "I" -> "i" [] c = "J" -> "j" [] c = "K" -> "k" [] c = "L" -> "l"
      [] c = "M" -> "m" [] c = "N" -> "n" [] c = "O" -> "o" [] c = "P" -> "p"
      [] c = "Q" -> "q" [] c = "R" -> "r" [] c = "S" -> "s" [] c = "T" -> "t"
      [] c = "U" -> "u" [] c = "V" -> "v" [] c = "W" -> "w" [] c = "X" -> "x"
      [] c = "Y" -> "y" [] c = "Z" -> "z" [] OTHER -> c

\* str.lower()
Lower(s) == [i \in 1..Len(s) |-> LowerChar(s[i])]

\* the characters the regular-expression class \w matches
IsWordChar(c) ==
    LowerChar(c) \in {"a", "b", "c", "d", "e", "f", "g", "h", "i", "j", "k", "l", "m",
                      "n", "o", "p", "q", "r", "s", "t", "u", "v", "w", "x", "y", "z",
                      "0", "1", "2", "3", "4", "5", "6", "7", "8", "9", "_"}

\* the string spelled by a sequence of characters
RECURSIVE Join(_)
Join(cs) == IF cs = <<>> THEN "" ELSE Head(cs) \o Join(Tail(cs))

\* re.search(lit + "$", s): s ends with the literal
EndsWith(s, lit) ==
    /\ Len(s) >= Len(lit)
    /\ SubSeq(s, Len(s) - Len(lit) + 1, Len(s)) = lit

\* re.search(lit, s): the literal occurs somewhere in s
Contains(s, lit) ==
    \E i \in 1..Len(s) : i + Len(lit) - 1 <= Len(s) /\ SubSeq(s, i, i + Len(lit) - 1) = lit

\* re.search(lit + "\w+$", s): the literal occurs and only word characters,
\* at least one, follow it up to the end of s
LitThenWord(s, lit) ==
    \E i \in 1..Len(s) :
        /\ i + Len(lit) <= Len(s)
        /\ SubSeq(s, i, i + Len(lit) - 1) = lit
        /\ \A j \in (i + Len(lit))..Len(s) : IsWordChar(s[j])

\* os.path.splitext on the spelling of a basename: the part from the last
\* dot on, empty when there is no dot or only dots before it
SplitExtChars(s) ==
    LET dots == {i \in 1..Len(s) : s[i] = "."}
    IN  IF dots = {} THEN <<>>
        ELSE LET d == CHOOSE i \in dots : \A j \in dots : j <= i
             IN  IF \E k \in 1..(d - 1) : s[k] # "."
                 THEN SubSeq(s, d, Len(s))
                 ELSE <<>>

\* os.path.splitext(path)[1]
splitext(name) == SplitExtChars(Chars[name])

\* file_organizer.py:148: ext[1:].lower() if ext else ""
ExtensionOf(ext) == IF ext # <<>> THEN Join(Lower(Tail(ext))) ELSE ""

\* file_organizer.py:147-148: the extension, lowercased, without the dot
Extension(name) == ExtensionOf(splitext(name))

\* file_organizer.py:331-342: the patterns of is_config_file, on a lowercased
\* name (the search ignores case)
MatchesConfigPattern(s) ==
    \/ EndsWith(s, <<".", "c", "o", "n", "f", "i", "g">>)
    \/ LitThenWord(s, <<".", "c", "o", "n", "f", "i", "g", ".">>)
    \/ EndsWith(s, <<".", "c", "o", "n", "f">>)
    \/ EndsWith(s, <<".", "i", "n", "i">>)
    \/ EndsWith(s, <<".", "e", "n", "v">>)
    \/ LitThenWord(s, <<".", "e", "n", "v", ".">>)
    \/ LitThenWord(s, <<"c", "o", "n", "f", "i", "g", ".">>)
    \/ EndsWith(s, <<".", "y", "a", "m", "l">>)
    \/ EndsWith(s, <<".", "y", "m", "l">>)
    \/ EndsWith(s, <<".", "t", "o", "m", "l">>)
    \/ LitThenWord(s, <<"s", "e", "t", "t", "i", "n", "g", "s", ".">>)

\* file_organizer.py:329-342
is_config_file(filename) == MatchesConfigPattern(Lower(Chars[filename]))

\* ConfigTypeOf with the ".env" test moved to the front
ConfigTypeOf_EnvFirst(s) ==
    IF Contains(s, <<".", "e", "n", "v">>) THEN "Environment"
    ELSE IF EndsWith(s, <<".", "y", "a", "m", "l">>) \/ EndsWith(s, <<".", "y", "m", "l">>)
    THEN "YAML"
    ELSE IF EndsWith(s, <<".", "t", "o", "m", "l">>) THEN "TOML"
    ELSE IF EndsWith(s, <<".", "j", "s", "o", "n">>) THEN "JSON"
    ELSE IF EndsWith(s, <<".", "i", "n", "i">>) THEN "INI"
    ELSE "General"

\* file_organizer.py:346-357: the subtype tests of get_config_type, in
\* their order, on a lowercased name
ConfigTypeOf(s) ==
    IF EndsWith(s, <<".", "y", "a", "m", "l">>) \/ EndsWith(s, <<".", "y", "m", "l">>)
    THEN "YAML"
    ELSE IF EndsWith(s, <<".", "t", "o", "m", "l">>) THEN "TOML"
    ELSE IF EndsWith(s, <<".", "j", "s", "o", "n">>) THEN "JSON"
    ELSE IF Contains(s, <<".", "e", "n", "v">>) THEN "Environment"
    ELSE IF EndsWith(s, <<".", "i", "n", "i">>) THEN "INI"
    ELSE "General"

\* file_organizer.py:344-357
get_config_type(filename) == ConfigTypeOf(Lower(Chars[filename]))

\* what the source reads of each file content: its size in bytes, whether
\* it decodes as UTF-8, whether its stripped first line starts with "#!",
\* which interpreter names occur in that line, and which of the patterns
\* of detect_file_type_from_content occur in its first 4096 characters
Contents ==
    ("py_shebang" :> [size |-> 66, utf8 |-> TRUE, shebang |-> TRUE, first |-> {"python"},
        html |-> FALSE, css |-> FALSE, js |-> FALSE, react |-> FALSE, ts |-> FALSE, sql |-> FALSE])
 @@ ("bash_shebang" :> [size |-> 20, utf8 |-> TRUE, shebang |-> TRUE, first |-> {"bash", "sh"},
        html |-> FALSE, css |-> FALSE, js |-> FALSE, react |-> FALSE, ts |-> FALSE, sql |-> FALSE])
 @@ ("node_shebang" :> [size |-> 35, utf8 |-> TRUE, shebang |-> TRUE, first |-> {"node"},
        html |-> FALSE, css |-> FALSE, js |-> FALSE, react |-> FALSE, ts |-> FALSE, sql |-> FALSE])
 @@ ("perl_shebang" :> [size |-> 25, utf8 |-> TRUE, shebang |-> TRUE, first |-> {"perl"},
        html |-> FALSE, css |-> FALSE, js |-> FALSE, react |-> FALSE, ts |-> FALSE, sql |-> FALSE])
 @@ ("plain" :> [size |-> 21, utf8 |-> TRUE, shebang |-> FALSE, first |-> {},
        html |-> FALSE, css |-> FALSE, js |-> FALSE, react |-> FALSE, ts |-> FALSE, sql |-> FALSE])
 @@ ("text" :> [size |-> 46, utf8 |-> TRUE, shebang |-> FALSE, first |-> {},
        html |-> FALSE, css |-> FALSE, js |-> FALSE, react |-> FALSE, ts |-> FALSE, sql |-> FALSE])
 @@ ("html" :> [size |-> 31, utf8 |-> TRUE, shebang |-> FALSE, first |-> {},
        html |-> TRUE, css |-> FALSE, js |-> FALSE, react |-> FALSE, ts |-> FALSE, sql |-> FALSE])
 @@ ("css" :> [size |-> 22, utf8 |-> TRUE, shebang |-> FALSE, first |-> {},
        html |-> FALSE, css |-> TRUE, js |-> FALSE, react |-> FALSE, ts |-> FALSE, sql |-> FALSE])
 @@ ("react" :> [size |-> 186, utf8 |-> TRUE, shebang |-> FALSE, first |-> {},
        html |-> FALSE, css |-> FALSE, js |-> TRUE, react |-> TRUE, ts |-> FALSE, sql |-> FALSE])
 @@ ("js" :> [size |-> 26, utf8 |-> TRUE, shebang |-> FALSE, first |-> {},
        html |-> FALSE, css |-> FALSE, js |-> TRUE, react |-> FALSE, ts |-> FALSE, sql |-> FALSE])
 @@ ("ts" :> [size |-> 31, utf8 |-> TRUE, shebang |-> FALSE, first |-> {},
        html |-> FALSE, css |-> FALSE, js |-> TRUE, react |-> FALSE, ts |-> TRUE, sql |-> FALSE])
 @@ ("sql" :> [size |-> 173, utf8 |-> TRUE, shebang |-> FALSE, first |-> {},
        html |-> FALSE, css |-> FALSE, js |-> FALSE, react |-> FALSE, ts |-> FALSE, sql |-> TRUE])
 @@ ("sql_below_limit" :> [size |-> 511999, utf8 |-> TRUE, shebang |-> FALSE, first |-> {},
        html |-> FALSE, css |-> FALSE, js |-> FALSE, react |-> FALSE, ts |-> FALSE, sql |-> TRUE])
 @@ ("sql_at_limit" :> [size |-> 512000, utf8 |-> TRUE, shebang |-> FALSE, first |-> {},
        html |-> FALSE, css |-> FALSE, js |-> FALSE, react |-> FALSE, ts |-> FALSE, sql |-> TRUE])
 @@ ("partial_report" :> [size |-> 120, utf8 |-> TRUE, shebang |-> FALSE, first |-> {},
        html |-> FALSE, css |-> FALSE, js |-> FALSE, react |-> FALSE, ts |-> FALSE, sql |-> FALSE])
 @@ ("binary" :> [size |-> 20, utf8 |-> FALSE, shebang |-> FALSE, first |-> {},
        html |-> FALSE, css |-> FALSE, js |-> FALSE, react |-> FALSE, ts |-> FALSE, sql |-> FALSE])

\* file_organizer.py:311: the content classifier skips larger files
SizeCeiling == 500 * 1024

\* no destination (Python's None; an empty path is falsy like None)
NoPath == <<>>

\* file_organizer.py:237-243: equal digests for equal contents
get_file_hash(data) == "md5-" \o data

(***************************************************************************)
(* Paths                                                                   *)
(***************************************************************************)
basename(p) == p[Len(p)]

dirname(p) == SubSeq(p, 1, Len(p) - 1)

\* os.path.relpath(d, start) for a directory d at or below start
relpath(d, start) ==
    IF d = start THEN <<".">> ELSE SubSeq(d, Len(start) + 1, Len(d))

\* is directory d equal to, or an ancestor of, path p
IsPrefix(d, p) == Len(d) <= Len(p) /\ SubSeq(p, 1, Len(d)) = d

\* the directories os.makedirs(d, exist_ok=True) makes sure exist
Ancestors(d) == {SubSeq(d, 1, k) : k \in 1..Len(d)}

(***************************************************************************)
(* Classification                                                          *)
(***************************************************************************)
\* file_organizer.py:129-142
should_exclude(org, path) ==
    \/ basename(path) \in org.exclude_files
    \/ \E i \in 1..Len(path) : path[i] \in org.exclude_dirs

\* file_organizer.py:316-319 and 156-159: the relative directory that
\* project mode nests under the target root
ProjectRel(org, file_path) ==
    IF relpath(dirname(file_path), org.source_dir) = <<".">>
    THEN <<>>
    ELSE relpath(dirname(file_path), org.source_dir)

\* CategoryPath without the project-mode branch
CategoryPath_Flat(org, file_path, category) ==
    org.target_dir \o category \o <<basename(file_path)>>

\* file_organizer.py:155-163 and 315-323: the destination of a file under a
\* category, nested under its relative directory in project mode
CategoryPath(org, file_path, category) ==
    IF org.project_mode
    THEN org.target_dir \o ProjectRel(org, file_path) \o category \o <<basename(file_path)>>
    ELSE org.target_dir \o category \o <<basename(file_path)>>

\* file_organizer.py:150-166: the destination for an extension
TargetPathFor(org, file_path, ext) ==
    IF ext = "" THEN NoPath
    ELSE IF ext \in DOMAIN DEFAULT_MAPPINGS
    THEN CategoryPath(org, file_path, DEFAULT_MAPPINGS[ext])
    ELSE NoPath

\* file_organizer.py:144-166: the destination by extension
get_target_path(org, file_path) ==
    TargetPathFor(org, file_path, Extension(basename(file_path)))

\* file_organizer.py:165: the extension get_target_path records as unknown
UnknownExtension(file_path) ==
    {ext \in {Extension(basename(file_path))} : ext # "" /\ ext \notin DOMAIN DEFAULT_MAPPINGS}

\* file_organizer.py:364-383: the category the shebang line gives to a
\* script, or NoPath
ShebangType(ext, c) ==
    IF /\ ext \in {".py", ".js", ".sh", ".bash", ".pl", ".rb"}
       /\ c.utf8
       /\ c.shebang
    THEN IF "python" \in c.first THEN <<"Python", "Scripts">>
         ELSE IF "node" \in c.first THEN <<"Web", "JavaScript", "Scripts">>
         ELSE IF c.first \cap {"bash", "sh", "zsh"} # {} THEN <<"Scripts", "Shell">>
         ELSE IF "ruby" \in c.first THEN <<"Ruby", "Scripts">>
         ELSE IF "perl" \in c.first THEN <<"Perl", "Scripts">>
         ELSE NoPath
    ELSE NoPath

\* file_organizer.py:385-413: the category the content patterns give, or NoPath
SignatureType(c) ==
    IF ~c.utf8 THEN NoPath
    ELSE IF c.html THEN <<"Web", "HTML">>
    ELSE IF c.css THEN <<"Web", "CSS">>
    ELSE IF c.js
         THEN IF c.react THEN <<"Web", "React">>
              ELSE IF c.ts THEN <<"Web", "TypeScript">>
              ELSE <<"Web", "JavaScript">>
    ELSE IF c.sql THEN <<"Database", "SQL">>
    ELSE NoPath

\* file_organizer.py:359-413: the shebang pass, then the pattern pass
DetectType(ext, c) ==
    IF ShebangType(ext, c) # NoPath THEN ShebangType(ext, c) ELSE SignatureType(c)

\* file_organizer.py:359-413: the category read from the content, or NoPath
detect_file_type_from_content(filename, data) ==
    DetectType(Join(Lower(splitext(filename))), Contents[data])

\* file_organizer.py:314-323: the destination for a content category
ContentPath(org, file_path, file_type) ==
    IF file_type # NoPath THEN CategoryPath(org, file_path, file_type) ELSE NoPath

\* file_organizer.py:310-313: the content is read only below the size ceiling
ContentType(filename, data) ==
    IF Contents[data].size < SizeCeiling
    THEN detect_file_type_from_content(filename, data)
    ELSE NoPath

\* file_organizer.py:297-327: the destination by name pattern or content
smart_categorize_file(org, file_path, data) ==
    IF is_config_file(basename(file_path))
    THEN org.target_dir \o <<"Config", get_config_type(basename(file_path))>>
                        \o <<basename(file_path)>>
    ELSE ContentPath(org, file_path, ContentType(basename(file_path), data))

\* FallBack with the extension mapper asked first
FallBack_ExtensionFirst(smart_path, extension_path) ==
    IF extension_path # NoPath THEN extension_path ELSE smart_path

\* file_organizer.py:204-205: the fallback when smart categorization gave nothing
FallBack(smart_path, extension_path) ==
    IF smart_path # NoPath THEN smart_path ELSE extension_path

\* file_organizer.py:200-205: smart categorization first, extension as fallback
Destination(org, file_path, data) ==
    FallBack(smart_categorize_file(org, file_path, data), get_target_path(org, file_path))

(***************************************************************************)
(* State                                                                   *)
(***************************************************************************)
VARIABLES
    args,             \* the parsed command line of main()
    config_file,      \* the configuration file: its status and, when well-formed, its record
    org,              \* the FileOrganizer main() runs (its configuration fields)
    stats,            \* FileOrganizer.stats
    duplicate_files,  \* FileOrganizer.duplicate_files: digest -> paths sharing it
    fs_files,         \* the regular files on disk: records [path, data]
    fs_dirs,          \* the directories on disk
    stack,            \* os.walk: the directories still to visit, next first
    root,             \* os.walk: the directory being visited
    files,            \* os.walk: the files listed in root and not yet handled
    pc,               \* where main() is
    last,             \* the file handled by the latest iteration and its outcome
    run,              \* how many times main() has been started
    files0,           \* the regular files on disk when this run started
    dirs0,            \* the directories on disk when this run started
    moved,            \* the destinations this run has moved a file to
    organized,        \* the destinations earlier runs have moved a file to
    stats_printed,    \* print_stats has logged the statistics of this run
    failed,           \* shutil.move has raised for a file of this run
    first             \* what an earlier run on the same initial tree has ended with

vars == <<args, config_file, org, stats, duplicate_files, fs_files, fs_dirs, stack,
          root, files, pc, last, run, files0, dirs0, moved, organized, stats_printed,
          failed, first>>

\* file_organizer.py:117 and 544
DefaultExcludeDirs == {".git", ".vscode", "node_modules", "venv", "env", "__pycache__"}

\* file_organizer.py:118
DefaultExcludeFiles == {"file_organizer.py", "file_organizer_config.json"}

\* file_organizer.py:545
MainExcludeFiles == {"file_organizer.py", "file_organizer_config.json", "organize.py"}

\* file_organizer.py:523: the default of --report-file
ReportFile == "organization_report.json"

\* no file has been handled yet
NoFile == [path |-> NoPath, data |-> "", outcome |-> "none", dest |-> NoPath,
           counted |-> "none"]

\* file_organizer.py:103-119: FileOrganizer.__init__; target_dir defaults to
\* source_dir, the exclusion lists to the class defaults when empty or absent
FileOrganizer(source_dir, target_dir, project_mode, exclude_dirs, exclude_files, dry_run) ==
    [source_dir    |-> source_dir,
     target_dir    |-> IF target_dir # NoPath THEN target_dir ELSE source_dir,
     project_mode  |-> project_mode,
     exclude_dirs  |-> IF exclude_dirs # {} THEN exclude_dirs ELSE DefaultExcludeDirs,
     exclude_files |-> IF exclude_files # {} THEN exclude_files ELSE DefaultExcludeFiles,
     dry_run       |-> dry_run]

\* file_organizer.py:122-127
InitialStats ==
    [total_files |-> 0, organized_files |-> 0, skipped_files |-> 0,
     unknown_extensions |-> {}]

\* file_organizer.py:459-468: the record save_config writes
SavedConfig(o) ==
    [source_dir    |-> o.source_dir,
     target_dir    |-> o.target_dir,
     project_mode  |-> o.project_mode,
     exclude_dirs  |-> o.exclude_dirs,
     exclude_files |-> o.exclude_files]

\* file_organizer.py:483: cls(**config); the file holds no dry_run key, so
\* dry_run takes its default
ConfiguredOrganizer(config) ==
    FileOrganizer(config.source_dir, config.target_dir, config.project_mode,
                  config.exclude_dirs, config.exclude_files, FALSE)

\* file_organizer.py:475-489: the organizer for a well-formed file, else
\* None (here <<>>)
load_config(cf) ==
    IF cf.status # "ok" THEN <<>> ELSE <<ConfiguredOrganizer(cf.config[1])>>

\* file_organizer.py:537-559: the organizer main() builds from the command line
MainOrganizer(a, cf) ==
    IF a.load_config
    THEN IF load_config(cf) = <<>>
         THEN FileOrganizer(a.source_dir, a.target_dir, a.project_mode, {}, {}, a.dry_run)
         ELSE load_config(cf)[1]
    ELSE FileOrganizer(a.source_dir, a.target_dir, a.project_mode,
                       DefaultExcludeDirs \cup a.exclude_dir,
                       MainExcludeFiles \cup a.exclude_file, a.dry_run)

\* the file at a path (there is at most one)
FileAt(fset, p) == CHOOSE f \in fset : f.path = p

IsFile(fset, p) == \E f \in fset : f.path = p

\* file_organizer.py:250-253: the files the duplicate pre-pass hashes
Scanned(o, fset) ==
    {f \in fset : IsPrefix(o.source_dir, f.path) /\ ~should_exclude(o, f.path)}

\* file_organizer.py:255-256: the paths of the files with a digest
PathsWithHash(scanned, h) == {f.path : f \in {g \in scanned : get_file_hash(g.data) = h}}

\* file_organizer.py:261: the digests that two or more files share
SharedHashes(scanned) ==
    {h \in {get_file_hash(f.data) : f \in scanned} : Cardinality(PathsWithHash(scanned, h)) > 1}

\* file_organizer.py:245-261: digest -> paths of the non-excluded files with
\* that digest, kept only for digests that two or more files share
find_duplicate_files(o, fset) ==
    [h \in SharedHashes(Scanned(o, fset)) |-> PathsWithHash(Scanned(o, fset), h)]

\* file_organizer.py:263-293: the project type the marker files of the source
\* root give (the git probe, an external process, is left out)
detect_project_structure(o, fset, s) ==
    IF \/ IsFile(fset, o.source_dir \o <<"requirements.txt">>)
       \/ IsFile(fset, o.source_dir \o <<"setup.py">>)
    THEN s @@ ("project_type" :> "python")
    ELSE IF IsFile(fset, o.source_dir \o <<"package.json">>)
    THEN s @@ ("project_type" :> "nodejs")
    ELSE s

\* every order in which a set of names can be enumerated
Orders(S) ==
    {o \in [1..Cardinality(S) -> S] : \A i, j \in 1..Cardinality(S) : o[i] = o[j] => i = j}

\* shutil.move: where the file ends up (inside dst when dst is a directory)
RealDst(dset, file_path, target_path) ==
    IF target_path \in dset THEN target_path \o <<basename(file_path)>> ELSE target_path

\* MoveOutcome without the dry-run test before the move
MoveOutcome_NoDryRunTest(o, fset, dset, file_path, target_path, io_error) ==
    IF \E a \in Ancestors(dirname(target_path)) : IsFile(fset, a) THEN "makedirs_error"
    ELSE IF io_error THEN "move_failed"
    ELSE "moved"

\* file_organizer.py:212-232: what one iteration does with a classified file
\* whose destination differs from its path; io_error is whether the
\* operating system refuses the move
MoveOutcome(o, fset, dset, file_path, target_path, io_error) ==
    IF \E a \in Ancestors(dirname(target_path)) : IsFile(fset, a) THEN "makedirs_error"
    ELSE IF o.dry_run THEN "would_move"
    ELSE IF io_error THEN "move_failed"
    ELSE IF /\ target_path \in dset
            /\ \/ IsFile(fset, RealDst(dset, file_path, target_path))
               \/ RealDst(dset, file_path, target_path) \in dset
         THEN "move_failed"
    ELSE "moved"

\* file_organizer.py:184-232: the outcome of one iteration of the file loop
Outcome(o, fset, dset, file_path, target_path, io_error) ==
    IF should_exclude(o, file_path) THEN "excluded"
    ELSE IF target_path = NoPath THEN "unclassified"
    ELSE IF file_path = target_path THEN "same"
    ELSE MoveOutcome(o, fset, dset, file_path, target_path, io_error)

\* file_organizer.py:224: the files on disk after shutil.move(src, dst); a
\* file already at the destination is replaced
FilesAfterMove(fset, src, dst) ==
    {f \in fset : f.path # src /\ f.path # dst} \cup {[path |-> dst, data |-> FileAt(fset, src).data]}

\* file_organizer.py:219-224: the files on disk after the iteration
FilesAfter(fset, dset, file_path, target_path, outcome) ==
    IF outcome = "moved"
    THEN FilesAfterMove(fset, file_path, RealDst(dset, file_path, target_path))
    ELSE fset

\* file_organizer.py:219: os.makedirs runs before the dry-run test
DirsAfter(dset, target_path, outcome) ==
    IF outcome \in {"moved", "move_failed", "would_move"}
    THEN dset \cup Ancestors(dirname(target_path))
    ELSE dset

\* file_organizer.py:197-198
IncrementDuplicates(s) ==
    IF "duplicate_files" \in DOMAIN s
    THEN [s EXCEPT !["duplicate_files"] = @ + 1]
    ELSE s @@ ("duplicate_files" :> 1)

\* file_organizer.py:194-198: the duplicate counter
CountDuplicate(o, index, outcome, file_hash, s) ==
    IF /\ outcome # "excluded"
       /\ ~o.dry_run
       /\ file_hash \in DOMAIN index
       /\ Cardinality(index[file_hash]) > 1
    THEN IncrementDuplicates(s)
    ELSE s

\* file_organizer.py:204-205 and 165: the extension mapper runs, and records
\* an unknown extension, only when smart categorization gave nothing
RecordUnknown(outcome, smart_path, file_path, s) ==
    IF outcome # "excluded" /\ smart_path = NoPath
    THEN [s EXCEPT !["unknown_extensions"] = @ \cup UnknownExtension(file_path)]
    ELSE s

\* CountOutcome without the increment in the handler of a failed move
CountOutcome_FailedMoveUncounted(outcome, s) ==
    IF outcome \in {"excluded", "unclassified", "same"}
    THEN [s EXCEPT !["skipped_files"] = @ + 1]
    ELSE IF outcome \in {"moved", "would_move"}
    THEN [s EXCEPT !["organized_files"] = @ + 1]
    ELSE s

\* file_organizer.py:191, 209, 215, 226, 229 and 232
CountOutcome(outcome, s) ==
    IF outcome \in {"excluded", "unclassified", "same", "move_failed"}
    THEN [s EXCEPT !["skipped_files"] = @ + 1]
    ELSE IF outcome \in {"moved", "would_move"}
    THEN [s EXCEPT !["organized_files"] = @ + 1]
    ELSE s

\* file_organizer.py:185
CountFile(s) == [s EXCEPT !["total_files"] = @ + 1]

\* file_organizer.py:185-232: the statistics after the iteration
StatsAfter(o, index, file_path, data, outcome, s) ==
    CountOutcome(outcome,
        RecordUnknown(outcome, smart_categorize_file(o, file_path, data), file_path,
            CountDuplicate(o, index, outcome, get_file_hash(data), CountFile(s))))

(***************************************************************************)
(* Operations                                                              *)
(***************************************************************************)
\* file_organizer.py:513-571: main() up to the call of organize_files
Start ==
    /\ pc = "start"
    /\ org' = MainOrganizer(args, config_file)
    /\ stats' = InitialStats
    /\ config_file' = IF args.save_config
                      THEN [status |-> "ok", config |-> <<SavedConfig(org')>>]
                      ELSE config_file
    /\ pc' = "organize"
    /\ UNCHANGED <<args, duplicate_files, fs_files, fs_dirs, stack, root, files, last,
                   run, files0, dirs0, moved, organized, stats_printed, failed, first>>

\* file_organizer.py:170-180: project detection, the duplicate pre-pass
\* (skipped in dry-run) and the start of the walk at the source root
BeginOrganize ==
    /\ pc = "organize"
    /\ stats' = detect_project_structure(org, fs_files, stats)
    /\ duplicate_files' = IF ~org.dry_run THEN find_duplicate_files(org, fs_files) ELSE <<>>
    /\ stack' = <<org.source_dir>>
    /\ pc' = "walk"
    /\ UNCHANGED <<args, config_file, org, fs_files, fs_dirs, root, files, last, run,
                   files0, dirs0, moved, organized, stats_printed, failed, first>>

\* os.walk: the subdirectories of a directory
Subdirs(dset, top) == {d \in dset : Len(d) = Len(top) + 1 /\ dirname(d) = top}

\* os.walk: the names of the files of a directory
FileNames(fset, top) == {basename(f.path) : f \in {g \in fset : dirname(g.path) = top}}

\* file_organizer.py:182: the subdirectories os.walk will descend into
KeptDirs(o, dset, top) == {d \in Subdirs(dset, top) : ~should_exclude(o, d)}

\* file_organizer.py:180-182: os.walk lists the next directory, in any order,
\* and the excluded subdirectories are pruned before the descent
WalkDir ==
    /\ pc = "walk"
    /\ files = {}
    /\ stack # <<>>
    /\ root' = Head(stack)
    /\ files' = FileNames(fs_files, Head(stack))
    /\ \E order \in Orders(KeptDirs(org, fs_dirs, Head(stack))) : stack' = order \o Tail(stack)
    /\ UNCHANGED <<args, config_file, org, stats, duplicate_files, fs_files, fs_dirs, pc,
                   last, run, files0, dirs0, moved, organized, stats_printed, failed, first>>

\* the counter an iteration has incremented besides total_files
CountedAs(before, after) ==
    IF after.skipped_files = before.skipped_files + 1 THEN "skipped"
    ELSE IF after.organized_files = before.organized_files + 1 THEN "organized"
    ELSE "none"

\* file_organizer.py:185-232: the effect of one iteration on the state
Iteration(file, file_path, data, target_path, outcome) ==
    /\ files' = files \ {file}
    /\ stats' = StatsAfter(org, duplicate_files, file_path, data, outcome, stats)
    /\ fs_files' = FilesAfter(fs_files, fs_dirs, file_path, target_path, outcome)
    /\ fs_dirs' = DirsAfter(fs_dirs, target_path, outcome)
    /\ moved' = IF outcome = "moved"
                THEN moved \cup {RealDst(fs_dirs, file_path, target_path)}
                ELSE moved
    /\ last' = [path |-> file_path, data |-> data, outcome |-> outcome,
                dest |-> IF outcome = "excluded" THEN NoPath ELSE target_path,
                counted |-> CountedAs(stats, stats')]
    /\ failed' = (failed \/ outcome = "move_failed")
    /\ pc' = IF outcome = "makedirs_error" THEN "error" ELSE "walk"

\* file_organizer.py:200-216: the destination of the file decides the outcome
Classified(file, file_path, data, target_path, io_error) ==
    Iteration(file, file_path, data, target_path,
              Outcome(org, fs_files, fs_dirs, file_path, target_path, io_error))

\* file_organizer.py:186-205: the file is read and classified
Visit(file, file_path, data, io_error) ==
    Classified(file, file_path, data, Destination(org, file_path, data), io_error)

\* file_organizer.py:184-232: one iteration of the file loop
ProcessFile ==
    /\ pc = "walk"
    /\ \E file \in files, io_error \in BOOLEAN :
        Visit(file, root \o <<file>>, FileAt(fs_files, root \o <<file>>).data, io_error)
    /\ UNCHANGED <<args, config_file, org, duplicate_files, stack, root, run, files0,
                   dirs0, organized, stats_printed, first>>

\* file_organizer.py:438-457: generate_report opens the report file in the
\* target directory and json.dump fails on the set of unknown extensions,
\* after part of the report has been written
generate_report(o, fset, dset) ==
    IF o.dry_run \/ o.target_dir \notin dset THEN fset
    ELSE {f \in fset : f.path # o.target_dir \o <<ReportFile>>}
            \cup {[path |-> o.target_dir \o <<ReportFile>>, data |-> "partial_report"]}

\* file_organizer.py:234-235 and 576-590: the walk is over; print_stats logs
\* the statistics and the report, when requested, is generated
Finish ==
    /\ pc = "walk"
    /\ files = {}
    /\ stack = <<>>
    /\ stats_printed' = TRUE
    /\ fs_files' = IF args.report /\ ~args.dry_run
                   THEN generate_report(org, fs_files, fs_dirs)
                   ELSE fs_files
    /\ pc' = IF args.report /\ ~args.dry_run /\ ~org.dry_run THEN "error" ELSE "done"
    /\ UNCHANGED <<args, config_file, org, stats, duplicate_files, fs_dirs, stack, root,
                   files, last, run, files0, dirs0, moved, organized, failed, first>>

\* file_organizer.py:581-583: a keyboard interrupt during organize_files
Interrupt ==
    /\ pc \in {"organize", "walk"}
    /\ pc' = "interrupted"
    /\ UNCHANGED <<args, config_file, org, stats, duplicate_files, fs_files, fs_dirs,
                   stack, root, files, last, run, files0, dirs0, moved, organized,
                   stats_printed, failed, first>>

\* the same command line is run again on the tree the last run has left
Rerun ==
    /\ pc = "done"
    /\ run < MaxRuns
    /\ run' = run + 1
    /\ pc' = "start"
    /\ files0' = fs_files
    /\ dirs0' = fs_dirs
    /\ organized' = organized \cup moved
    /\ moved' = {}
    /\ stack' = <<>>
    /\ root' = <<>>
    /\ files' = {}
    /\ last' = NoFile
    /\ stats_printed' = FALSE
    /\ failed' = FALSE
    /\ UNCHANGED <<args, config_file, org, stats, duplicate_files, fs_files, fs_dirs,
                   first>>

\* no earlier run on the same initial tree
NoRun == [valid |-> FALSE, dry_run |-> FALSE, failed |-> FALSE, files |-> {},
          total_files |-> 0, organized_files |-> 0, skipped_files |-> 0]

\* what a finished run leaves: the files on disk and the counters
RunResult(o, fset, s, f) ==
    [valid |-> TRUE, dry_run |-> o.dry_run, failed |-> f, files |-> fset,
     total_files |-> s.total_files, organized_files |-> s.organized_files,
     skipped_files |-> s.skipped_files]

\* main() is run once more on the initial tree, restored, with the same
\* command line up to the --dry-run flag
Replay ==
    /\ pc = "done"
    /\ ~first.valid
    /\ first' = RunResult(org, fs_files, stats, failed)
    /\ \E dry_run \in BOOLEAN : args' = [args EXCEPT !.dry_run = dry_run]
    /\ fs_files' = files0
    /\ fs_dirs' = dirs0
    /\ pc' = "start"
    /\ run' = run + 1
    /\ moved' = {}
    /\ stack' = <<>>
    /\ root' = <<>>
    /\ files' = {}
    /\ last' = NoFile
    /\ stats_printed' = FALSE
    /\ failed' = FALSE
    /\ UNCHANGED <<config_file, org, stats, duplicate_files, files0, dirs0, organized>>

\* file_organizer.py:583, 588 and 590: the exit status of the process
ExitStatus == IF pc \in {"interrupted", "error"} THEN 1 ELSE 0

\* one invocation of main()
Next ==
    \/ Start
    \/ BeginOrganize
    \/ WalkDir
    \/ ProcessFile
    \/ Finish
    \/ Interrupt

\* invocations of main() one after the other
NextRerun ==
    \/ Start
    \/ BeginOrganize
    \/ WalkDir
    \/ ProcessFile
    \/ Finish
    \/ Interrupt
    \/ Rerun

\* two invocations of main() on the same initial tree
NextReplay ==
    \/ Start
    \/ BeginOrganize
    \/ WalkDir
    \/ ProcessFile
    \/ Finish
    \/ Interrupt
    \/ Replay

(***************************************************************************)
(* Initial states: a source tree and a command line                        *)
(***************************************************************************)
\* the source root of the modelled runs
SourceDir == <<"proj">>

File(dir, name, data) == [path |-> SourceDir \o dir \o <<name>>, data |-> data]

\* the files the initial trees of Spec are made of
Catalogue ==
    {File(<<>>, "script.py", "text"),
     File(<<"src">>, "script.py", "text"),
     File(<<"Python">>, "lib.py", "plain"),
     File(<<"docs">>, "config.json", "plain"),
     File(<<>>, "run.sh", "py_shebang"),
     File(<<"venv">>, "lib.py", "plain"),
     File(<<>>, "notes.xyz", "plain"),
     File(<<>>, "Python", "plain"),
     File(<<"docs">>, "script.py", "plain")}

\* the files the initial trees of SpecClassify are made of: every modelled
\* name, and the contents that exercise each stage of the classification
ClassifyCatalogue ==
    {File(<<>>, n, "plain") : n \in DOMAIN Chars}
    \cup {File(<<>>, "run.sh", d) :
            d \in {"py_shebang", "bash_shebang", "node_shebang", "perl_shebang", "binary"}}
    \cup {File(<<>>, "database.txt", d) :
            d \in {"sql", "sql_below_limit", "sql_at_limit", "html", "css", "js", "ts", "react"}}
    \cup {File(<<>>, "settings.js", "js"), File(<<>>, "config.json", "html"),
          File(<<>>, "Makefile", "py_shebang"), File(<<>>, "README.MD", "html"),
          File(<<>>, "notes.xyz", "sql"), File(<<>>, "tool.pl", "perl_shebang"),
          File(<<"src">>, "app.js", "plain"), File(<<"src">>, "Button.js", "react"),
          File(<<"src">>, "run.sh", "py_shebang"), File(<<"src">>, ".env", "plain"),
          File(<<"docs">>, "config.json", "plain"), File(<<"docs">>, "data.json", "plain"),
          File(<<"docs">>, "settings.yaml", "plain"), File(<<"docs">>, "notes.xyz", "plain")}

\* the directories a tree of files lies in
DirsOf(tree) == {SourceDir} \cup UNION {Ancestors(dirname(f.path)) : f \in tree}

\* a file can be added to a tree: its path is free, is not a directory of
\* the tree, and none of its directories is a file of the tree
Fits(tree, g) ==
    /\ \A h \in tree : h.path # g.path /\ h.path \notin Ancestors(dirname(g.path))
    /\ g.path \notin DirsOf(tree)

\* the trees of at most n files of a catalogue
RECURSIVE Trees(_, _)
Trees(cat, n) ==
    IF n = 0 THEN {{}}
    ELSE Trees(cat, n - 1)
         \cup UNION {{t \cup {f} : f \in {g \in cat : Fits(t, g)}} : t \in Trees(cat, n - 1)}

NoConfigFile == [status |-> "missing", config |-> <<>>]

\* the command lines of Spec: the options of the organizer
CoreArgs ==
    [source_dir : {SourceDir}, target_dir : {NoPath, <<"proj", "out">>, <<"out">>},
     project_mode : BOOLEAN, dry_run : BOOLEAN, save_config : {FALSE},
     load_config : {FALSE}, report : {FALSE}, no_smart : {FALSE},
     no_duplicates : {FALSE}, exclude_dir : {{}}, exclude_file : {{}}]

\* the command lines of SpecClassify: a run that moves files
ClassifyArgs ==
    [source_dir : {SourceDir}, target_dir : {NoPath, <<"out">>},
     project_mode : BOOLEAN, dry_run : {FALSE}, save_config : {FALSE},
     load_config : {FALSE}, report : {FALSE}, no_smart : {FALSE},
     no_duplicates : {FALSE}, exclude_dir : {{}}, exclude_file : {{}}]

\* the files the initial trees of SpecCLI are made of
CLICatalogue ==
    {File(<<>>, "script.py", "text"),
     File(<<"src">>, "utils.py", "text"),
     File(<<>>, "run.sh", "py_shebang"),
     File(<<"docs">>, "config.json", "plain")}

\* the command lines of SpecCLI: every option of main()
CLIArgs ==
    [source_dir : {SourceDir}, target_dir : {NoPath},
     project_mode : BOOLEAN, dry_run : BOOLEAN, save_config : BOOLEAN,
     load_config : BOOLEAN, report : BOOLEAN, no_smart : BOOLEAN,
     no_duplicates : BOOLEAN, exclude_dir : {{}, {"docs"}, {"proj"}}, exclude_file : {{}}]

\* the configuration files of SpecCLI: absent, unparsable, or as saved by an
\* earlier run
CLIConfigFiles ==
    {NoConfigFile, [status |-> "malformed", config |-> <<>>]}
    \cup {[status |-> "ok",
           config |-> <<SavedConfig(FileOrganizer(SourceDir, NoPath, pm, {}, {}, FALSE))>>] :
            pm \in BOOLEAN}

InitWith(trees, argset, configs) ==
    /\ args \in argset
    /\ config_file \in configs
    /\ ~args.load_config => config_file = NoConfigFile
    /\ fs_files \in trees
    /\ fs_dirs = DirsOf(fs_files)
    /\ files0 = fs_files
    /\ dirs0 = fs_dirs
    /\ org = FileOrganizer(NoPath, NoPath, FALSE, {}, {}, FALSE)
    /\ stats = InitialStats
    /\ duplicate_files = <<>>
    /\ stack = <<>>
    /\ root = <<>>
    /\ files = {}
    /\ pc = "start"
    /\ last = NoFile
    /\ run = 1
    /\ moved = {}
    /\ organized = {}
    /\ stats_printed = FALSE
    /\ failed = FALSE
    /\ first = NoRun

Init == InitWith(Trees(Catalogue, MaxFiles), CoreArgs, {NoConfigFile})

InitClassify ==
    InitWith(Trees(ClassifyCatalogue, MaxClassifyFiles), ClassifyArgs, {NoConfigFile})

InitRerun == InitWith(Trees(Catalogue, MaxRerunFiles), CoreArgs, {NoConfigFile})

InitCLI == InitWith(Trees(CLICatalogue, MaxCLIFiles), CLIArgs, CLIConfigFiles)

Spec == Init /\ [][Next]_vars

SpecClassify == InitClassify /\ [][Next]_vars

SpecCLI == InitCLI /\ [][Next]_vars

SpecRerun == InitRerun /\ [][NextRerun]_vars

InitReplay == InitWith(Trees(Catalogue, MaxReplayFiles), CoreArgs, {NoConfigFile})

SpecReplay == InitReplay /\ [][NextReplay]_vars

(***************************************************************************)
(* Properties                                                              *)
(***************************************************************************)
\* an iteration of the file loop has handled a file that was not excluded
Handled == last.outcome \notin {"none", "excluded"}

\* the directory of the handled file relative to the source root, empty
\* when the file lies directly in the source root
RelDir == SubSeq(last.path, Len(org.source_dir) + 1, Len(last.path) - 1)

\* C1: with the dry-run flag set on the organizer no file is moved: the
\* files on disk, paths and contents, are those the run started with
C1_DryRunMovesNoFile == org.dry_run => (fs_files = files0 /\ moved = {})

\* C1: a dry run has handled a file it would move, and has finished
C1_Witness == org.dry_run /\ pc = "done" /\ last.outcome = "would_move"

\* C2: with the dry-run flag set no directory is created: the directories
\* on disk are those the run started with
C2_DryRunCreatesNoDirectory == org.dry_run => fs_dirs = dirs0

\* C3: when the command line holds --dry-run the run moves no file, whatever
\* the other options are
C3_DryRunFlagMovesNoFile == args.dry_run => fs_files = files0

C5_ExtensionDestination ==
    (/\ Handled
     /\ ~is_config_file(basename(last.path))
     /\ ContentType(basename(last.path), last.data) = NoPath
     /\ Extension(basename(last.path)) \in DOMAIN DEFAULT_MAPPINGS) =>
        /\ last.dest = org.target_dir
                       \o (IF org.project_mode THEN RelDir ELSE <<>>)
                       \o DEFAULT_MAPPINGS[Extension(basename(last.path))]
                       \o <<basename(last.path)>>
        /\ last.path = <<"proj", "src", "app.js">> =>
              last.dest = IF org.project_mode
                          THEN org.target_dir \o <<"src", "Web", "JavaScript", "app.js">>
                          ELSE org.target_dir \o <<"Web", "JavaScript", "app.js">>

\* C5: src/app.js has been moved by a project-mode run
C5_Witness ==
    /\ last.path = <<"proj", "src", "app.js">>
    /\ last.outcome = "moved"
    /\ org.project_mode

\* the config subtype of a lowercased name, by the first test that matches
C6_Subtype(s) ==
    CASE EndsWith(s, <<".", "y", "a", "m", "l">>) \/ EndsWith(s, <<".", "y", "m", "l">>) -> "YAML"
      [] OTHER ->
    CASE EndsWith(s, <<".", "t", "o", "m", "l">>) -> "TOML"
      [] OTHER ->
    CASE EndsWith(s, <<".", "j", "s", "o", "n">>) -> "JSON"
      [] OTHER ->
    CASE Contains(s, <<".", "e", "n", "v">>) -> "Environment"
      [] OTHER ->
    CASE EndsWith(s, <<".", "i", "n", "i">>) -> "INI"
      [] OTHER -> "General"

C7_JsonDestination ==
    (last.outcome = "moved" /\ Extension(basename(last.path)) = "json") =>
        /\ ~org.project_mode =>
              last.dest = org.target_dir \o <<"Data", "JSON", basename(last.path)>>
        /\ (org.project_mode /\ last.path = <<"proj", "docs", "config.json">>) =>
              last.dest = org.target_dir \o <<"docs", "Data", "JSON", "config.json">>

\* C8: a later run finds every file that an earlier run has placed with
\* source equal to destination, and skips it
C8_Idempotent ==
    (run >= 2 /\ last.outcome # "none" /\ last.path \in organized) =>
        (last.outcome = "same" /\ last.counted = "skipped")

\* C9: with --no-smart the destination of every handled file is the one
\* the extension mapping alone gives
C9_NoSmartUsesExtensionOnly ==
    (args.no_smart /\ Handled) => last.dest = get_target_path(org, last.path)

\* C10: with --no-duplicates the duplicate index stays empty and the
\* duplicate counter is never incremented
C10_NoDuplicatesLeavesIndexEmpty ==
    args.no_duplicates =>
        (DOMAIN duplicate_files = {} /\ "duplicate_files" \notin DOMAIN stats)

\* C11: a run that is not a dry run and for which a report was requested
\* writes, once the walk has finished, a report file with the statistics and
\* the version, and the process exits with status zero
C11_ReportWrittenExitZero ==
    (args.report /\ ~args.dry_run /\ stats_printed /\ pc \in {"done", "error"}) =>
        /\ ExitStatus = 0
        /\ \E f \in fs_files :
              f.path = org.target_dir \o <<ReportFile>> /\ f.data # "partial_report"

\* C12: when a keyboard interrupt or an error ends the run, the statistics
\* gathered so far have been reported and the exit status is not zero
C12_AbortReportsStatistics ==
    pc \in {"interrupted", "error"} => (stats_printed /\ ExitStatus # 0)

\* the value of the duplicate counter, absent until the first increment
DuplicateCounter(s) == IF "duplicate_files" \in DOMAIN s THEN s["duplicate_files"] ELSE 0

\* the non-excluded files of a tree that share their content with another
\* non-excluded file of it
InDuplicateGroup(o, fset) ==
    {f \in Scanned(o, fset) :
        \E g \in Scanned(o, fset) : g.path # f.path /\ g.data = f.data}

\* C13: at the end of a run that is not a dry run the duplicate counter is
\* the number of non-excluded files of the initial tree that share their
\* content with another non-excluded file
C13_DuplicateCounterExact ==
    (pc = "done" /\ ~org.dry_run) =>
        DuplicateCounter(stats) = Cardinality(InDuplicateGroup(org, files0))

\* C14: when no move fails, the counters total_files, organized_files and
\* skipped_files after a dry run equal those after a run that moves the
\* files, on the same initial tree with the same configuration
C14_DryRunCountsAsRealRun ==
    (/\ pc = "done"
     /\ first.valid
     /\ first.dry_run # org.dry_run
     /\ ~failed
     /\ ~first.failed) =>
        /\ stats.total_files = first.total_files
        /\ stats.organized_files = first.organized_files
        /\ stats.skipped_files = first.skipped_files

\* C17: the walk never discovers a file that this run has already moved
C17_MovedFileNotDiscoveredAgain ==
    last.outcome # "none" => last.path \notin moved

\* C18: two runs on the same initial tree with the same configuration, in
\* which no move fails, end with the same files, paths and contents, and
\* the same counters, whatever the order of enumeration
C18_OrderIndependent ==
    (/\ pc = "done"
     /\ first.valid
     /\ first.dry_run = org.dry_run
     /\ ~failed
     /\ ~first.failed) =>
        /\ fs_files = first.files
        /\ stats.total_files = first.total_files
        /\ stats.organized_files = first.organized_files
        /\ stats.skipped_files = first.skipped_files

\* C19: after a run that is not a dry run every file of the initial tree
\* is, with its content, at its original path or at its destination, and
\* the tree holds as many files as before
C19_NoFileDestroyed ==
    (pc = "done" /\ ~org.dry_run) =>
        /\ Cardinality(fs_files) = Cardinality(files0)
        /\ \A f \in files0 :
              \E g \in fs_files :
                  /\ g.data = f.data
                  /\ g.path \in {f.path, Destination(org, f.path, f.data)}

\* C15: no file below a directory named in the excluded-directory set is
\* visited, counted or moved; a file whose basename is in the excluded-file
\* set is counted in total_files and skipped_files and stays where it is
C15_ExcludedDirectoriesPruned ==
    last.outcome # "none" =>
        /\ \A i \in 1..(Len(last.path) - 1) : last.path[i] \notin org.exclude_dirs
        /\ basename(last.path) \in org.exclude_files =>
              /\ last.outcome = "excluded"
              /\ last.counted = "skipped"
              /\ IsFile(fs_files, last.path)

\* C16 as stated: every file the walk discovers ends in one of the states
\* excluded, unclassified, same source and destination, moved (would move
\* in a dry run) or move failed, is counted in exactly one of
\* organized_files and skipped_files, and total_files = organized_files +
\* skipped_files holds after each file
C16_EveryFileCountedOnce ==
    /\ last.outcome # "none" =>
          /\ last.outcome \in {"excluded", "unclassified", "same", "moved", "would_move",
                               "move_failed"}
          /\ last.counted \in {"organized", "skipped"}
    /\ stats.total_files = stats.organized_files + stats.skipped_files

\* C16, amended: every file whose iteration runs to its end is in one of
\* these states and is counted in organized_files when moved (would move in
\* a dry run), in skipped_files otherwise, the run going on after a failed
\* move; total_files = organized_files + skipped_files holds after each such
\* file; the file for which os.makedirs raises is counted in total_files
\* only, and the run aborts
C16_CompletedFileCountedOnce ==
    /\ last.outcome \notin {"none", "makedirs_error"} =>
          /\ last.outcome \in {"excluded", "unclassified", "same", "moved", "would_move",
                               "move_failed"}
          /\ last.counted = IF last.outcome \in {"moved", "would_move"}
                            THEN "organized" ELSE "skipped"
          /\ pc # "error"
    /\ last.outcome # "makedirs_error" =>
          stats.total_files = stats.organized_files + stats.skipped_files
    /\ last.outcome = "makedirs_error" =>
          /\ pc = "error"
          /\ last.counted = "none"
          /\ stats.total_files = stats.organized_files + stats.skipped_files + 1

\* C16: a run has gone on to its end after a move that failed
C16_Witness == pc = "done" /\ last.outcome = "move_failed" /\ stats.total_files >= 2
====
